---- MODULE Spec2Model ----
(***************************************************************************)
(* Model of the pagination helper package: the query-string parser         *)
(* (GetFromURLQuery), the response envelope (BuildPageable,                *)
(* PageableToSlice, MockPageableLabel) and the nullable wrappers           *)
(* (NullBool, NullInt, NullFloat, NullString, NullEmptyString, NullTime).  *)
(*                                                                         *)
(* Every operation of the package is a synchronous function.  Each is an   *)
(* operator below, and each component has a specification whose actions    *)
(* apply the operators to inputs drawn from bounded sets:                  *)
(*   SpecQuery     the query-string parser                                 *)
(*   SpecPageable  the envelope builder and decoder                        *)
(*   SpecNull      the nullable wrappers                                   *)
(*                                                                         *)
(* Text is modelled as a sequence of one-character strings, so that        *)
(* parsing (strconv.Atoi) and formatting (strconv.Itoa) are computed       *)
(* character by character.  Go strings are taken to be valid UTF-8.        *)
(***************************************************************************)
EXTENDS Integers, Sequences, FiniteSets, TLC

VARIABLES
    query,      \* the query string of the request handed to GetFromURLQuery
    parsed,     \* what the last call of the parser returned
    pageable,   \* the envelope under test
    origin,     \* how the envelope under test was made
    sliced,     \* what the last call of PageableToSlice returned
    w,          \* the nullable wrapper under test
    out         \* what the last call on a wrapper returned

vars == <<query, parsed, pageable, origin, sliced, w, out>>

(***************************************************************************)
(* Bounds of the model.                                                    *)
(***************************************************************************)
MaxQueryLen == 2

MaxLabelLen == 1

MaxData == 2

MaxHops == 1

(***************************************************************************)
(* Text.                                                                   *)
(***************************************************************************)
Digits == <<"0", "1", "2", "3", "4", "5", "6", "7", "8", "9">>

IsDigit(c) == \E i \in 1..10 : Digits[i] = c

DigitVal(c) == (CHOOSE i \in 1..10 : Digits[i] = c) - 1

StringsUpTo(alphabet, n) == UNION {[1..k -> alphabet] : k \in 0..n}

\* s[from..] of Go.
Drop(s, from) == SubSeq(s, from + 1, Len(s))

RECURSIVE StripZeros(_)
StripZeros(s) ==
    IF Len(s) > 1 /\ Head(s) = "0" THEN StripZeros(Tail(s)) ELSE s

RECURSIVE LexLess(_, _)
LexLess(a, b) ==
    IF a = <<>> THEN FALSE
    ELSE IF DigitVal(Head(a)) # DigitVal(Head(b))
         THEN DigitVal(Head(a)) < DigitVal(Head(b))
         ELSE LexLess(Tail(a), Tail(b))

\* a > b for two digit strings read as natural numbers of any size.
MagGreater(a, b) ==
    LET x == StripZeros(a)
        y == StripZeros(b)
    IN  IF Len(x) # Len(y) THEN Len(x) > Len(y) ELSE LexLess(y, x)

(***************************************************************************)
(* strconv.  The int of the parser is 64 bits wide: a magnitude above      *)
(* 2^63-1 (2^63 for a negative number) is a range error.  An int is kept   *)
(* as its sign and its decimal digits without leading zeros, which is      *)
(* exact over the whole width.                                             *)
(***************************************************************************)
RECURSIVE UItoa(_)
UItoa(n) ==
    IF n < 10 THEN <<Digits[n + 1]>>
    ELSE Append(UItoa(n \div 10), Digits[(n % 10) + 1])

\* The int with the given sign and magnitude; -0 is 0.
GoInt(neg, mag) ==
    [neg |-> neg /\ StripZeros(mag) # <<"0">>, mag |-> StripZeros(mag)]

\* The int of a small natural number.
IntOf(n) == GoInt(FALSE, UItoa(n))

IsNegative(i) == i.neg

MaxIntDigits ==
    <<"9","2","2","3","3","7","2","0","3","6","8","5","4","7","7","5","8","0","7">>

MinIntDigits ==
    <<"9","2","2","3","3","7","2","0","3","6","8","5","4","7","7","5","8","0","8">>

NoErr == "nil"

Atoi(s) ==
    LET signed == Len(s) > 0 /\ s[1] \in {"-", "+"}
        neg    == Len(s) > 0 /\ s[1] = "-"
        mag    == IF signed THEN Drop(s, 1) ELSE s
    IN  IF mag = <<>> \/ \E i \in 1..Len(mag) : ~IsDigit(mag[i])
        THEN [n |-> IntOf(0), err |-> "ErrSyntax"]
        ELSE IF MagGreater(mag, IF neg THEN MinIntDigits ELSE MaxIntDigits)
        THEN [n |-> IntOf(0), err |-> "ErrRange"]
        ELSE [n |-> GoInt(neg, mag), err |-> NoErr]

Itoa(i) == IF i.neg THEN <<"-">> \o i.mag ELSE i.mag

(***************************************************************************)
(* The pagination parser.                                                  *)
(***************************************************************************)
DefaultOffset == IntOf(0)

DefaultLimit500 == IntOf(500)

Pagination(offset, limit) == [Offset |-> offset, Limit |-> limit]

ZeroPagination == Pagination(IntOf(0), IntOf(0))

Default == Pagination(IntOf(0), DefaultLimit500)

NilError == [type |-> NoErr, Key |-> "", Err |-> NoErr]

BadRequestValueError(key, err) ==
    [type |-> "BadRequestValueError", Key |-> key, Err |-> err]

\* A query parameter: absent, or present with a text value.
Absent == [present |-> FALSE, val |-> <<>>]

Present(s) == [present |-> TRUE, val |-> s]

\* c.DefaultQuery(key, defaultValue): the value of key if the key is in the
\* query, whatever the value, and defaultValue otherwise.
DefaultQuery(q, key, defaultValue) ==
    IF q[key].present THEN q[key].val ELSE defaultValue

GetFromURLQuery_LimitUnchecked(q) ==
    LET o == Atoi(DefaultQuery(q, "offset", Itoa(DefaultOffset)))
        l == Atoi(DefaultQuery(q, "limit", Itoa(DefaultLimit500)))
    IN  IF o.err # NoErr
        THEN [page |-> ZeroPagination, err |-> BadRequestValueError("offset", o.err)]
        ELSE IF IsNegative(o.n)
        THEN [page |-> ZeroPagination, err |-> BadRequestValueError("offset", "negative")]
        ELSE IF l.err # NoErr
        THEN [page |-> ZeroPagination, err |-> BadRequestValueError("limit", l.err)]
        ELSE [page |-> Pagination(o.n, l.n), err |-> NilError]

GetFromURLQuery_LimitCapped(q) ==
    LET o == Atoi(DefaultQuery(q, "offset", Itoa(DefaultOffset)))
        l == Atoi(DefaultQuery(q, "limit", Itoa(DefaultLimit500)))
    IN  IF o.err # NoErr
        THEN [page |-> ZeroPagination, err |-> BadRequestValueError("offset", o.err)]
        ELSE IF IsNegative(o.n)
        THEN [page |-> ZeroPagination, err |-> BadRequestValueError("offset", "negative")]
        ELSE IF l.err # NoErr
        THEN [page |-> ZeroPagination, err |-> BadRequestValueError("limit", l.err)]
        ELSE IF IsNegative(l.n)
        THEN [page |-> ZeroPagination, err |-> BadRequestValueError("limit", "negative")]
        ELSE [page |-> Pagination(o.n, IF MagGreater(l.n.mag, DefaultLimit500.mag) THEN DefaultLimit500 ELSE l.n),
              err |-> NilError]

GetFromURLQuery(q) ==
    LET o == Atoi(DefaultQuery(q, "offset", Itoa(DefaultOffset)))
        l == Atoi(DefaultQuery(q, "limit", Itoa(DefaultLimit500)))
    IN  IF o.err # NoErr
        THEN [page |-> ZeroPagination, err |-> BadRequestValueError("offset", o.err)]
        ELSE IF IsNegative(o.n)
        THEN [page |-> ZeroPagination, err |-> BadRequestValueError("offset", "negative")]
        ELSE IF l.err # NoErr
        THEN [page |-> ZeroPagination, err |-> BadRequestValueError("limit", l.err)]
        ELSE IF IsNegative(l.n)
        THEN [page |-> ZeroPagination, err |-> BadRequestValueError("limit", "negative")]
        ELSE [page |-> Pagination(o.n, l.n), err |-> NilError]

\* The values a query parameter takes in the model: every text of at most
\* MaxQueryLen characters over QueryChars, the values of the package's tests,
\* and the texts around the two ends of the int range.
QueryChars == {"-", "+", "0", "1", "7", "x"}

QueryTexts ==
    StringsUpTo(QueryChars, MaxQueryLen)
        \cup { <<"1","0","0">>, <<"5","0","0">>, <<"p","o","u","e","t">>,
               <<"2","1","4","7","4","8","3","6","4","7">>,
               MaxIntDigits, MinIntDigits, <<"-">> \o MinIntDigits,
               <<"-">> \o Append(SubSeq(MinIntDigits, 1, 18), "9"),
               <<"0">> \o MinIntDigits }

QueryParams == {Absent} \cup {Present(s) : s \in QueryTexts}

Queries == [offset : QueryParams, limit : QueryParams]

NoCall == [op |-> "none"]

\* The handler of one request parses the request's query.
GetFromURLQueryCall ==
    /\ parsed' = [op |-> "GetFromURLQuery"] @@ GetFromURLQuery(query)
    /\ UNCHANGED <<query, pageable, origin, sliced, w, out>>

DefaultCall ==
    /\ parsed' = [op |-> "Default", page |-> Default, err |-> NilError]
    /\ UNCHANGED <<query, pageable, origin, sliced, w, out>>

NextQuery == GetFromURLQueryCall \/ DefaultCall

\* A request has arrived, with any query.
InitQuery ==
    /\ query \in Queries
    /\ parsed = NoCall
    /\ pageable = NoCall
    /\ origin = NoCall
    /\ sliced = NoCall
    /\ w = NoCall
    /\ out = NoCall

SpecQuery == InitQuery /\ [][NextQuery]_vars

(***************************************************************************)
(* encoding/json.  A JSON text (the bytes MarshalJSON returns and          *)
(* UnmarshalJSON is given) is modelled by its syntax tree, with three      *)
(* texts that are not a bare JSON value: the empty text, a malformed text, *)
(* and the literal null with a space before it, which json.Unmarshal       *)
(* reads as null and which is not the byte string "null".                  *)
(***************************************************************************)
JNull == [j |-> "null"]

JPaddedNull == [j |-> "padded null"]

JEmpty == [j |-> "empty"]

JMalformed == [j |-> "malformed"]

JBool(b) == [j |-> "bool", b |-> b]

\* The number literal -?mag(.frac)?
JNumber(neg, mag, frac) == [j |-> "number", neg |-> neg, mag |-> mag, frac |-> frac]

JString(s) == [j |-> "string", s |-> s]

\* An object: a function from its keys to the JSON texts of their values.
JObject(fields) == [j |-> "object", fields |-> fields]

JArray(elems) == [j |-> "array", elems |-> elems]

\* json.Unmarshal reads these as the JSON value null.
IsJSONNull(b) == b.j \in {"null", "padded null"}

\* json.Unmarshal rejects these with a syntax error.
IsNotJSON(b) == b.j \in {"empty", "malformed"}

\* json.Unmarshal(b, &s) for a string s holding old: null leaves s alone, a
\* string is stored, anything else is an error that leaves s alone.
UnmarshalString(b, old) ==
    IF IsJSONNull(b) THEN [val |-> old, err |-> NoErr]
    ELSE IF b.j = "string" THEN [val |-> b.s, err |-> NoErr]
    ELSE IF IsNotJSON(b) THEN [val |-> old, err |-> "SyntaxError"]
    ELSE [val |-> old, err |-> "UnmarshalTypeError"]

(***************************************************************************)
(* NullEmptyString and Label.                                              *)
(***************************************************************************)
NullEmptyString(valid, s) == [Valid |-> valid, String |-> s]

ZeroNullEmptyString == NullEmptyString(FALSE, <<>>)

NullEmptyString_MarshalJSON(ns) ==
    [bytes |-> IF ~ns.Valid THEN JString(<<>>) ELSE JString(ns.String), err |-> NoErr]

NullEmptyString_UnmarshalJSON(ns, b) ==
    LET r == UnmarshalString(b, ns.String)
    IN  [w |-> NullEmptyString(r.err = NoErr, r.val), err |-> r.err]

Label(ns) == [Label |-> ns]

ZeroLabel == Label(ZeroNullEmptyString)

\* json.Marshal of a Label: the object with the one key "label".
MarshalLabel(l) ==
    JObject([k \in {"label"} |-> NullEmptyString_MarshalJSON(l.Label).bytes])

\* json.Unmarshal(b, &sample) for a zero Label sample: null leaves the sample
\* alone; an object hands the text of its "label" key, null included, to
\* NullEmptyString.UnmarshalJSON and ignores the other keys; any other JSON
\* value is an error.
UnmarshalLabel(b) ==
    IF IsJSONNull(b) THEN [val |-> ZeroLabel, err |-> NoErr]
    ELSE IF IsNotJSON(b) THEN [val |-> ZeroLabel, err |-> "SyntaxError"]
    ELSE IF b.j # "object" THEN [val |-> ZeroLabel, err |-> "UnmarshalTypeError"]
    ELSE IF "label" \notin DOMAIN b.fields THEN [val |-> ZeroLabel, err |-> NoErr]
    ELSE LET r == NullEmptyString_UnmarshalJSON(ZeroNullEmptyString, b.fields["label"])
         IN  [val |-> Label(r.w), err |-> r.err]

(***************************************************************************)
(* Values of type interface{}: what json.Unmarshal stores in an            *)
(* interface{} (nil, bool, float64, string, map[string]interface{},        *)
(* []interface{}), and a func, which json.Marshal refuses.                 *)
(***************************************************************************)
GNil == [g |-> "nil"]

GString(s) == [g |-> "string", s |-> s]

\* A float64 holding a whole number.
GFloat(neg, mag) == [g |-> "float64", neg |-> neg, mag |-> mag]

GMap(m) == [g |-> "map", m |-> m]

GFunc == [g |-> "func"]

\* Only maps of values that are not maps themselves are modelled.
MarshalScalar(v) ==
    CASE v.g = "nil" -> [bytes |-> JNull, err |-> NoErr]
      [] v.g = "string" -> [bytes |-> JString(v.s), err |-> NoErr]
      [] v.g = "float64" -> [bytes |-> JNumber(v.neg, v.mag, <<>>), err |-> NoErr]
      [] v.g = "func" -> [bytes |-> JEmpty, err |-> "UnsupportedTypeError"]

\* json.Marshal(value) for a value of type interface{}.
MarshalGeneric(v) ==
    IF v.g # "map" THEN MarshalScalar(v)
    ELSE IF \E k \in DOMAIN v.m : MarshalScalar(v.m[k]).err # NoErr
    THEN [bytes |-> JEmpty, err |-> "UnsupportedTypeError"]
    ELSE [bytes |-> JObject([k \in DOMAIN v.m |-> MarshalScalar(v.m[k]).bytes]),
          err |-> NoErr]

UnmarshalScalarGeneric(b) ==
    CASE b.j = "null" -> GNil
      [] b.j = "string" -> GString(b.s)
      [] b.j = "number" -> GFloat(b.neg, b.mag)

\* json.Unmarshal(b, &v) for v of type interface{} and b the text of a
\* string, a whole number, null or an object of these.
UnmarshalGeneric(b) ==
    IF b.j = "object"
    THEN GMap([k \in DOMAIN b.fields |-> UnmarshalScalarGeneric(b.fields[k])])
    ELSE UnmarshalScalarGeneric(b)

(***************************************************************************)
(* Slices and the envelope.  A slice is nil or not, and has its elements;  *)
(* the Data field of the envelope is an interface{}: it holds a value      *)
(* with its dynamic type, or nil.                                          *)
(***************************************************************************)
NilSlice == [isNil |-> TRUE, elems |-> <<>>]

Slice(elems) == [isNil |-> FALSE, elems |-> elems]

\* The value x of dynamic type dyn as an interface{}.
Iface(dyn, x) == [dyn |-> dyn, isNil |-> x.isNil, elems |-> x.elems]

NilIface == [dyn |-> "nil", isNil |-> TRUE, elems |-> <<>>]

\* int64(1) as an interface{}.
Int64Iface == [dyn |-> "int64", isNil |-> FALSE, elems |-> <<>>]

Pageable(limit, offset, total, data) ==
    [Limit |-> limit, Offset |-> offset, Total |-> total, Data |-> data]

BuildPageable_LimitOffsetSwapped(page, total, data) ==
    Pageable(page.Offset, page.Limit, total, Iface("[]Label", data))

\* BuildPageable[Label]: data is a []Label.
BuildPageable(page, total, data) ==
    Pageable(page.Limit, page.Offset, total, Iface("[]Label", data))

\* The map MockPageableLabel makes for one label.
MockLabelMap(value) == GMap([k \in {"label"} |-> GString(value)])

\* append(data, x) makes a slice that is not nil.
MockPageableLabel(labels) ==
    LET data == IF labels = <<>> THEN NilSlice
                ELSE Slice([i \in 1..Len(labels) |-> MockLabelMap(labels[i])])
    IN  Pageable(IntOf(999999), IntOf(0), Len(data.elems), Iface("[]interface {}", data))

\* One turn of the loop of PageableToSlice: value is marshalled and the
\* bytes are unmarshalled into a zero Label.
ConvertElement(value) ==
    LET m == MarshalGeneric(value)
    IN  IF m.err # NoErr THEN [val |-> ZeroLabel, err |-> "unable to encode"]
        ELSE LET u == UnmarshalLabel(m.bytes)
             IN  IF u.err # NoErr THEN [val |-> ZeroLabel, err |-> "unable to encode"]
                 ELSE [val |-> u.val, err |-> NoErr]

\* The loop of PageableToSlice over the elements from position i on, data
\* being the slice built so far.
RECURSIVE ConvertFrom(_, _, _)
ConvertFrom(elems, i, data) ==
    IF i > Len(elems) THEN [data |-> data, err |-> NoErr]
    ELSE LET c == ConvertElement(elems[i])
         IN  IF c.err # NoErr THEN [data |-> Slice(<<>>), err |-> c.err]
             ELSE ConvertFrom(elems, i + 1, Slice(Append(data.elems, c.val)))

RECURSIVE ConvertFrom_KeepsPartial(_, _, _)
ConvertFrom_KeepsPartial(elems, i, data) ==
    IF i > Len(elems) THEN [data |-> data, err |-> NoErr]
    ELSE LET c == ConvertElement(elems[i])
         IN  IF c.err # NoErr THEN [data |-> data, err |-> c.err]
             ELSE ConvertFrom_KeepsPartial(elems, i + 1, Slice(Append(data.elems, c.val)))

PageableToSlice_KeepsPartial(p) ==
    IF p.Data.dyn # "[]interface {}"
    THEN [data |-> Slice(<<>>), err |-> "unable to cast"]
    ELSE ConvertFrom_KeepsPartial(p.Data.elems, 1, NilSlice)

RECURSIVE ConvertFrom_Prepends(_, _, _)
ConvertFrom_Prepends(elems, i, data) ==
    IF i > Len(elems) THEN [data |-> data, err |-> NoErr]
    ELSE LET c == ConvertElement(elems[i])
         IN  IF c.err # NoErr THEN [data |-> Slice(<<>>), err |-> c.err]
             ELSE ConvertFrom_Prepends(elems, i + 1, Slice(<<c.val>> \o data.elems))

PageableToSlice_Prepends(p) ==
    IF p.Data.dyn # "[]interface {}"
    THEN [data |-> Slice(<<>>), err |-> "unable to cast"]
    ELSE ConvertFrom_Prepends(p.Data.elems, 1, NilSlice)

PageableToSlice_SkipsFirst(p) ==
    IF p.Data.dyn # "[]interface {}"
    THEN [data |-> Slice(<<>>), err |-> "unable to cast"]
    ELSE ConvertFrom(p.Data.elems, 2, NilSlice)

\* PageableToSlice[Label].
PageableToSlice(p) ==
    IF p.Data.dyn # "[]interface {}"
    THEN [data |-> Slice(<<>>), err |-> "unable to cast"]
    ELSE ConvertFrom(p.Data.elems, 1, NilSlice)

(***************************************************************************)
(* The envelope on the wire: json.Marshal of a Pageable and json.Unmarshal *)
(* of the bytes into a Pageable, whose Data is an interface{} ("from json  *)
(* Unmarshalling of Pageable").                                            *)
(***************************************************************************)
MarshalData(d) ==
    CASE d.dyn = "nil" -> [bytes |-> JNull, err |-> NoErr]
      [] d.dyn = "int64" -> [bytes |-> JNumber(FALSE, <<"1">>, <<>>), err |-> NoErr]
      [] d.dyn = "float64" -> [bytes |-> JNumber(FALSE, <<"1">>, <<>>), err |-> NoErr]
      [] d.dyn = "[]Label" ->
            [bytes |-> IF d.isNil THEN JNull
                       ELSE JArray([i \in 1..Len(d.elems) |-> MarshalLabel(d.elems[i])]),
             err |-> NoErr]
      [] d.dyn = "[]interface {}" ->
            IF \E i \in 1..Len(d.elems) : MarshalGeneric(d.elems[i]).err # NoErr
            THEN [bytes |-> JEmpty, err |-> "UnsupportedTypeError"]
            ELSE [bytes |-> IF d.isNil THEN JNull
                            ELSE JArray([i \in 1..Len(d.elems) |->
                                            MarshalGeneric(d.elems[i]).bytes]),
                  err |-> NoErr]

\* json.Unmarshal of the text of the data key into the interface{}.
UnmarshalData(b) ==
    CASE b.j = "null" -> NilIface
      [] b.j = "number" -> [dyn |-> "float64", isNil |-> FALSE, elems |-> <<>>]
      [] b.j = "array" ->
            Iface("[]interface {}",
                  Slice([i \in 1..Len(b.elems) |-> UnmarshalGeneric(b.elems[i])]))

\* The envelope a client reads: the int fields are written and read back in
\* decimal, the data is read back untyped.
Transfer(p) ==
    LET m == MarshalData(p.Data)
    IN  IF m.err # NoErr THEN [env |-> p, err |-> m.err]
        ELSE [env |-> Pageable(Atoi(Itoa(p.Limit)).n, Atoi(Itoa(p.Offset)).n,
                               p.Total, UnmarshalData(m.bytes)),
              err |-> NoErr]

(***************************************************************************)
(* The envelopes of the model.                                             *)
(***************************************************************************)
LabelTexts == StringsUpTo({"a", "b"}, MaxLabelLen)

NullEmptyStrings == {NullEmptyString(v, s) : v \in BOOLEAN, s \in LabelTexts}

Labels == {Label(ns) : ns \in NullEmptyStrings}

SlicesOf(S) == {NilSlice} \cup {Slice(e) : e \in StringsUpTo(S, MaxData)}

Pages == {Pagination(IntOf(0), IntOf(0)), Pagination(IntOf(47), IntOf(12))}

Totals == {1, 3}

\* The untyped values of a literal envelope: "toto" and 1 of the package's
\* tests, the empty string, nil, and maps of these.
GenericScalars ==
    {GNil, GFloat(FALSE, <<"1">>), GString(<<>>), GString(<<"t","o","t","o">>)}

GenericMaps ==
    {GMap(m) : m \in UNION {[K -> GenericScalars \cup {GFunc}] : K \in {{}, {"label"}}}}
        \cup {GMap(m) : m \in [{"id", "label"} -> GenericScalars]}

GenericValues == GenericScalars \cup {GFunc} \cup GenericMaps

\* What the envelope under test is made from: the arguments of
\* BuildPageable, the labels of MockPageableLabel, or the Data of an
\* envelope written as a literal.
Origins ==
    {[by |-> "BuildPageable", page |-> p, total |-> t, data |-> d] :
        p \in Pages, t \in Totals, d \in SlicesOf(Labels)}
    \cup {[by |-> "MockPageableLabel", labels |-> l] : l \in StringsUpTo(LabelTexts, MaxData)}
    \cup {[by |-> "literal", data |-> d] :
            d \in {NilIface, Int64Iface}
                \cup {Iface("[]interface {}", s) : s \in SlicesOf(GenericValues)}}

BuildPageableCall ==
    /\ origin.by = "BuildPageable"
    /\ pageable' = [by |-> origin.by, hops |-> 0,
                    env |-> BuildPageable(origin.page, origin.total, origin.data)]
    /\ UNCHANGED <<query, parsed, origin, sliced, w, out>>

MockPageableLabelCall ==
    /\ origin.by = "MockPageableLabel"
    /\ pageable' = [by |-> origin.by, hops |-> 0, env |-> MockPageableLabel(origin.labels)]
    /\ UNCHANGED <<query, parsed, origin, sliced, w, out>>

\* Pageable{Data: data}
LiteralPageable ==
    /\ origin.by = "literal"
    /\ pageable' = [by |-> origin.by, hops |-> 0,
                    env |-> Pageable(IntOf(0), IntOf(0), 0, origin.data)]
    /\ UNCHANGED <<query, parsed, origin, sliced, w, out>>

\* The envelope is sent and read back, when it can be encoded.
TransferPageable ==
    /\ pageable # NoCall
    /\ pageable.hops < MaxHops
    /\ Transfer(pageable.env).err = NoErr
    /\ pageable' = [pageable EXCEPT !.hops = @ + 1, !.env = Transfer(pageable.env).env]
    /\ UNCHANGED <<query, parsed, origin, sliced, w, out>>

PageableToSliceCall ==
    /\ pageable # NoCall
    /\ sliced' = [op |-> "PageableToSlice", of |-> pageable] @@ PageableToSlice(pageable.env)
    /\ UNCHANGED <<query, parsed, pageable, origin, w, out>>

NextPageable ==
    \/ BuildPageableCall
    \/ MockPageableLabelCall
    \/ LiteralPageable
    \/ TransferPageable
    \/ PageableToSliceCall

InitPageable ==
    /\ query = [offset |-> Absent, limit |-> Absent]
    /\ parsed = NoCall
    /\ pageable = NoCall
    /\ origin \in Origins
    /\ sliced = NoCall
    /\ w = NoCall
    /\ out = NoCall

SpecPageable == InitPageable /\ [][NextPageable]_vars

(***************************************************************************)
(* float64.  A float64 is NaN, an infinity, or a finite number kept as the *)
(* decimal json.Marshal writes for it: a sign, the digits before the point *)
(* without leading zeros and the digits after it without trailing zeros.   *)
(* Whole numbers are exact up to 2^53; between 2^53 and 2^54 a float64     *)
(* holds the even numbers only.  The numbers of the model stay below 2^54. *)
(***************************************************************************)
RECURSIVE StripTrailingZeros(_)
StripTrailingZeros(s) ==
    IF Len(s) > 0 /\ s[Len(s)] = "0"
    THEN StripTrailingZeros(SubSeq(s, 1, Len(s) - 1)) ELSE s

TwoTo53Digits == <<"9","0","0","7","1","9","9","2","5","4","7","4","0","9","9","2">>

\* mag + 1 on decimal digits.
RECURSIVE Increment(_)
Increment(mag) ==
    IF mag = <<>> THEN <<"1">>
    ELSE IF mag[Len(mag)] = "9"
         THEN Append(Increment(SubSeq(mag, 1, Len(mag) - 1)), "0")
         ELSE Append(SubSeq(mag, 1, Len(mag) - 1), Digits[DigitVal(mag[Len(mag)]) + 2])

\* mag - 1 for a mag that ends in an odd digit.
DecrementOdd(mag) ==
    Append(SubSeq(mag, 1, Len(mag) - 1), Digits[DigitVal(mag[Len(mag)])])

\* The remainder by 4 of a number of two digits or more.
Mod4(mag) == (10 * DigitVal(mag[Len(mag) - 1]) + DigitVal(mag[Len(mag)])) % 4

\* The nearest float64 of a whole number below 2^54, ties to even.
RoundWhole(mag) ==
    IF ~MagGreater(mag, TwoTo53Digits) \/ DigitVal(mag[Len(mag)]) % 2 = 0 THEN mag
    ELSE IF Mod4(mag) = 1 THEN DecrementOdd(mag) ELSE Increment(mag)

Finite(neg, mag, frac) ==
    [cls |-> "finite", neg |-> neg, mag |-> StripZeros(mag), frac |-> StripTrailingZeros(frac)]

NaN == [cls |-> "nan", neg |-> FALSE, mag |-> <<"0">>, frac |-> <<>>]

Inf(neg) == [cls |-> "inf", neg |-> neg, mag |-> <<"0">>, frac |-> <<>>]

ZeroFloat == Finite(FALSE, <<"0">>, <<>>)

\* f == 0, which holds of 0 and of -0 and not of NaN.
FloatIsZero(f) == f.cls = "finite" /\ f.mag = <<"0">> /\ f.frac = <<>>

\* The float64 of a number literal.
ParseFloat(b) ==
    IF StripTrailingZeros(b.frac) = <<>>
    THEN Finite(b.neg, RoundWhole(StripZeros(b.mag)), <<>>)
    ELSE Finite(b.neg, b.mag, b.frac)

\* int64(f) for a finite f: the fraction is dropped.
Int64OfFloat(f) == GoInt(f.neg, f.mag)

\* json.Marshal(f)
MarshalFloat64(f) ==
    IF f.cls = "finite" THEN [bytes |-> JNumber(f.neg, f.mag, f.frac), err |-> NoErr]
    ELSE [bytes |-> JEmpty, err |-> "UnsupportedValueError"]

\* json.Marshal(i) for an int64.
MarshalInt64(i) == [bytes |-> JNumber(i.neg, i.mag, <<>>), err |-> NoErr]

\* json.Unmarshal(b, &f) for a float64 f holding old.
UnmarshalFloat64(b, old) ==
    IF IsJSONNull(b) THEN [val |-> old, err |-> NoErr]
    ELSE IF b.j = "number" THEN [val |-> ParseFloat(b), err |-> NoErr]
    ELSE IF IsNotJSON(b) THEN [val |-> old, err |-> "SyntaxError"]
    ELSE [val |-> old, err |-> "UnmarshalTypeError"]

\* json.Unmarshal(b, &x) for a bool x holding old.
UnmarshalBool(b, old) ==
    IF IsJSONNull(b) THEN [val |-> old, err |-> NoErr]
    ELSE IF b.j = "bool" THEN [val |-> b.b, err |-> NoErr]
    ELSE IF IsNotJSON(b) THEN [val |-> old, err |-> "SyntaxError"]
    ELSE [val |-> old, err |-> "UnmarshalTypeError"]

(***************************************************************************)
(* NullBool, NullInt, NullFloat, NullString.  UnmarshalJSON has a pointer  *)
(* receiver: it is given the wrapper as it is and returns the wrapper as   *)
(* it leaves it.  string(b) == "null" holds of JNull alone.                *)
(***************************************************************************)
NullBool(valid, b) == [Valid |-> valid, Bool |-> b]

NullBool_MarshalJSON(nb) ==
    IF ~nb.Valid THEN [bytes |-> JNull, err |-> NoErr]
    ELSE [bytes |-> JBool(nb.Bool), err |-> NoErr]

NullBool_UnmarshalJSON_KeepsValid(nb, b) ==
    IF b = JNull THEN [w |-> NullBool(FALSE, nb.Bool), err |-> NoErr]
    ELSE LET r == UnmarshalBool(b, nb.Bool)
         IN  [w |-> NullBool(nb.Valid, r.val), err |-> r.err]

NullBool_UnmarshalJSON(nb, b) ==
    IF b = JNull THEN [w |-> NullBool(FALSE, nb.Bool), err |-> NoErr]
    ELSE LET r == UnmarshalBool(b, nb.Bool)
         IN  [w |-> NullBool(r.err = NoErr, r.val), err |-> r.err]

NullInt(valid, i) == [Valid |-> valid, Int64 |-> i]

NullInt_MarshalJSON_OnlyZeroIsNull(ni) ==
    IF ni.Int64 = IntOf(0) THEN [bytes |-> JNull, err |-> NoErr]
    ELSE MarshalInt64(ni.Int64)

NullInt_MarshalJSON(ni) ==
    IF ~ni.Valid \/ ni.Int64 = IntOf(0) THEN [bytes |-> JNull, err |-> NoErr]
    ELSE MarshalInt64(ni.Int64)

NullInt_UnmarshalJSON(ni, b) ==
    LET r == UnmarshalFloat64(b, ZeroFloat)
    IN  [w |-> NullInt(r.err = NoErr /\ b # JNull, Int64OfFloat(r.val)), err |-> r.err]

\* math.MaxInt32, and the magnitude of math.MinInt32.
MaxInt32Digits == <<"2","1","4","7","4","8","3","6","4","7">>

MinInt32Digits == <<"2","1","4","7","4","8","3","6","4","8">>

TwoTo16 == 256 * 256

\* The magnitude mag modulo 2^32, as <<high 16 bits, low 16 bits>>, read
\* digit by digit from the left.
RECURSIVE Mod2To32(_)
Mod2To32(mag) ==
    IF mag = <<>> THEN <<0, 0>>
    ELSE LET r  == Mod2To32(SubSeq(mag, 1, Len(mag) - 1))
             lo == 10 * r[2] + DigitVal(mag[Len(mag)])
             hi == 10 * r[1] + (lo \div TwoTo16)
         IN  <<hi % TwoTo16, lo % TwoTo16>>

\* The low 32 bits of the two's complement of the int64 i.
Low32(i) ==
    LET u == Mod2To32(i.mag)
    IN  IF ~i.neg \/ u = <<0, 0>> THEN u
        ELSE IF u[2] = 0 THEN <<TwoTo16 - u[1], 0>>
        ELSE <<TwoTo16 - 1 - u[1], TwoTo16 - u[2]>>

\* int32(i) for an int64 i: the low 32 bits, read as a signed number.
Int32Of(i) ==
    LET u == Low32(i)
    IN  IF u[1] < TwoTo16 \div 2 THEN IntOf(u[1] * TwoTo16 + u[2])
        ELSE IF u = <<TwoTo16 \div 2, 0>> THEN GoInt(TRUE, MinInt32Digits)
        ELSE IF u[2] = 0 THEN GoInt(TRUE, UItoa((TwoTo16 - u[1]) * TwoTo16))
        ELSE GoInt(TRUE, UItoa((TwoTo16 - 1 - u[1]) * TwoTo16 + (TwoTo16 - u[2])))

\* i > math.MaxInt32
AboveMaxInt32(i) == ~i.neg /\ MagGreater(i.mag, MaxInt32Digits)

NilPointer == [isNil |-> TRUE, val |-> IntOf(0)]

PointerTo(v) == [isNil |-> FALSE, val |-> v]

NullInt_MapToInt32(ni) ==
    IF ~ni.Valid THEN [ptr |-> NilPointer, err |-> NoErr]
    ELSE IF AboveMaxInt32(ni.Int64) THEN [ptr |-> NilPointer, err |-> "value too high"]
    ELSE [ptr |-> PointerTo(Int32Of(ni.Int64)), err |-> NoErr]

NullFloat(valid, f) == [Valid |-> valid, Float64 |-> f]

NullFloat_MarshalJSON(nf) ==
    IF ~nf.Valid \/ FloatIsZero(nf.Float64) THEN [bytes |-> JNull, err |-> NoErr]
    ELSE MarshalFloat64(nf.Float64)

NullFloat_UnmarshalJSON(nf, b) ==
    LET r == UnmarshalFloat64(b, nf.Float64)
    IN  [w |-> NullFloat(r.err = NoErr /\ b # JNull, r.val), err |-> r.err]

NullString(valid, s) == [Valid |-> valid, String |-> s]

NullString_MarshalJSON(ns) ==
    IF ~ns.Valid \/ ns.String = <<>> THEN [bytes |-> JNull, err |-> NoErr]
    ELSE [bytes |-> JString(ns.String), err |-> NoErr]

NullString_UnmarshalJSON(ns, b) ==
    IF b = JNull \/ b = JEmpty THEN [w |-> NullString(FALSE, ns.String), err |-> NoErr]
    ELSE LET r == UnmarshalString(b, ns.String)
         IN  [w |-> NullString(r.err = NoErr, r.val), err |-> r.err]

(***************************************************************************)
(* time.Time.  A time is the calendar date and the second of the day it    *)
(* shows in its location, and the location: UTC, or a zone of a fixed      *)
(* offset in seconds.  A zone is an object: id tells two zones of the same *)
(* offset apart, as == on two times compares the location pointers.        *)
(***************************************************************************)
UTC == [off |-> 0, id |-> 0]

FixedZone(off, id) == [off |-> off, id |-> id]

Time(y, m, d, sec, loc) == [y |-> y, m |-> m, d |-> d, sec |-> sec, loc |-> loc]

\* time.Time{}: January 1, year 1, 00:00:00 UTC.
ZeroTime == Time(1, 1, 1, 0, UTC)

SecondsPerDay == 24 * 3600

IsLeap(y) == y % 4 = 0 /\ (y % 100 # 0 \/ y % 400 = 0)

DaysIn(m, y) ==
    IF m = 2 THEN (IF IsLeap(y) THEN 29 ELSE 28)
    ELSE IF m \in {4, 6, 9, 11} THEN 30 ELSE 31

NextDay(t) ==
    IF t.d < DaysIn(t.m, t.y) THEN [t EXCEPT !.d = @ + 1]
    ELSE IF t.m < 12 THEN [t EXCEPT !.m = @ + 1, !.d = 1]
    ELSE [t EXCEPT !.y = @ + 1, !.m = 1, !.d = 1]

PrevDay(t) ==
    IF t.d > 1 THEN [t EXCEPT !.d = @ - 1]
    ELSE IF t.m > 1 THEN [t EXCEPT !.m = @ - 1, !.d = DaysIn(t.m - 1, t.y)]
    ELSE [t EXCEPT !.y = @ - 1, !.m = 12, !.d = 31]

\* The instant of t: what t shows in UTC, as <<year, month, day, second>>.
Instant(t) ==
    LET s == t.sec - t.loc.off
        u == IF s < 0 THEN [PrevDay(t) EXCEPT !.sec = s + SecondsPerDay]
             ELSE IF s >= SecondsPerDay THEN [NextDay(t) EXCEPT !.sec = s - SecondsPerDay]
             ELSE [t EXCEPT !.sec = s]
    IN  <<u.y, u.m, u.d, u.sec>>

RECURSIVE TupleLess(_, _)
TupleLess(a, b) ==
    IF a = <<>> THEN FALSE
    ELSE IF Head(a) # Head(b) THEN Head(a) < Head(b)
    ELSE TupleLess(Tail(a), Tail(b))

\* t.IsZero(): the instant is the zero instant, in whatever location.
IsZero(t) == Instant(t) = Instant(ZeroTime)

\* t.Before(u), t.After(u): the instants are compared.
Before(t, u) == TupleLess(Instant(t), Instant(u))

After(t, u) == TupleLess(Instant(u), Instant(t))

\* t == u: the same instant in the same location object.
TimeEq(t, u) == t = u

Pad2(n) == <<Digits[(n \div 10) + 1], Digits[(n % 10) + 1]>>

Pad4(n) == Pad2(n \div 100) \o Pad2(n % 100)

\* t.Format("2006-01-02"), for a year of 0 to 9999.
FormatDate(t) == Pad4(t.y) \o <<"-">> \o Pad2(t.m) \o <<"-">> \o Pad2(t.d)

AllDigits(s) == \A i \in 1..Len(s) : IsDigit(s[i])

RECURSIVE NatOf(_)
NatOf(s) ==
    IF s = <<>> THEN 0
    ELSE 10 * NatOf(SubSeq(s, 1, Len(s) - 1)) + DigitVal(s[Len(s)])

NoTime == [ok |-> FALSE, t |-> ZeroTime]

\* The date of the 10 characters 2006-01-02.
ParseDateText(s) ==
    IF /\ Len(s) = 10
       /\ s[5] = "-" /\ s[8] = "-"
       /\ AllDigits(SubSeq(s, 1, 4) \o SubSeq(s, 6, 7) \o SubSeq(s, 9, 10))
    THEN LET y == NatOf(SubSeq(s, 1, 4))
             m == NatOf(SubSeq(s, 6, 7))
             d == NatOf(SubSeq(s, 9, 10))
         IN  IF m \in 1..12 /\ d >= 1 /\ d <= DaysIn(m, y)
             THEN [ok |-> TRUE, t |-> Time(y, m, d, 0, UTC)]
             ELSE NoTime
    ELSE NoTime

\* The second of the day of the 8 characters 15:04:05.
ParseClockText(s) ==
    IF /\ Len(s) = 8
       /\ s[3] = ":" /\ s[6] = ":"
       /\ AllDigits(SubSeq(s, 1, 2) \o SubSeq(s, 4, 5) \o SubSeq(s, 7, 8))
       /\ NatOf(SubSeq(s, 1, 2)) < 24
       /\ NatOf(SubSeq(s, 4, 5)) < 60
       /\ NatOf(SubSeq(s, 7, 8)) < 60
    THEN [ok |-> TRUE,
          sec |-> 3600 * NatOf(SubSeq(s, 1, 2)) + 60 * NatOf(SubSeq(s, 4, 5))
                    + NatOf(SubSeq(s, 7, 8))]
    ELSE [ok |-> FALSE, sec |-> 0]

\* The location of Z or of the 6 characters +07:00; Parse makes a zone for
\* an offset.
ParseZoneText(s) ==
    IF s = <<"Z">> THEN [ok |-> TRUE, loc |-> UTC]
    ELSE IF /\ Len(s) = 6
            /\ s[1] \in {"+", "-"}
            /\ s[4] = ":"
            /\ AllDigits(SubSeq(s, 2, 3) \o SubSeq(s, 5, 6))
            /\ NatOf(SubSeq(s, 2, 3)) < 24
            /\ NatOf(SubSeq(s, 5, 6)) < 60
    THEN LET off == 3600 * NatOf(SubSeq(s, 2, 3)) + 60 * NatOf(SubSeq(s, 5, 6))
         IN  [ok |-> TRUE, loc |-> FixedZone(IF s[1] = "-" THEN 0 - off ELSE off, 1)]
    ELSE [ok |-> FALSE, loc |-> UTC]

\* The time of 2006-01-02T15:04:05Z07:00 without a fraction of a second.
ParseRFC3339Text(s) ==
    IF Len(s) >= 20 /\ s[11] = "T"
    THEN LET date  == ParseDateText(SubSeq(s, 1, 10))
             clock == ParseClockText(SubSeq(s, 12, 19))
             zone  == ParseZoneText(SubSeq(s, 20, Len(s)))
         IN  IF date.ok /\ clock.ok /\ zone.ok
             THEN [ok |-> TRUE, t |-> [date.t EXCEPT !.sec = clock.sec, !.loc = zone.loc]]
             ELSE NoTime
    ELSE NoTime

\* time.Parse(`"` + layout + `"`, string(b)): the bytes must be a quote, the
\* text of the layout and a quote, so only a JSON string can match.  On a
\* failure Parse returns the zero time with the error.
TimeParse(layout, b) ==
    LET p == IF b.j # "string" THEN NoTime
             ELSE IF layout = "2006-01-02" THEN ParseDateText(b.s)
             ELSE ParseRFC3339Text(b.s)
    IN  [t |-> p.t, err |-> IF p.ok THEN NoErr ELSE "ParseError"]

(***************************************************************************)
(* NullTime.                                                               *)
(***************************************************************************)
NullTime(valid, t) == [Valid |-> valid, Time |-> t]

NullTime_MarshalJSON(nt) ==
    IF ~nt.Valid \/ IsZero(nt.Time) THEN [bytes |-> JNull, err |-> NoErr]
    ELSE [bytes |-> JString(FormatDate(nt.Time)), err |-> NoErr]

NullTime_UnmarshalJSON(nt, b) ==
    IF b = JNull THEN [w |-> NullTime(FALSE, nt.Time), err |-> NoErr]
    ELSE LET date == TimeParse("2006-01-02", b)
             rfc  == TimeParse("RFC3339", b)
         IN  IF date.err = NoErr THEN [w |-> NullTime(TRUE, date.t), err |-> NoErr]
             ELSE IF rfc.err = NoErr THEN [w |-> NullTime(TRUE, rfc.t), err |-> NoErr]
             ELSE [w |-> NullTime(nt.Valid, rfc.t), err |-> rfc.err]

NullTime_AfterOrEqual(nt, t) ==
    IF ~IsZero(nt.Time) /\ IsZero(t.Time) THEN FALSE
    ELSE TimeEq(nt.Time, t.Time) \/ After(nt.Time, t.Time)

NullTime_BeforeOrEqual(nt, t) ==
    IF IsZero(nt.Time) /\ ~IsZero(t.Time) THEN FALSE
    ELSE IF ~IsZero(nt.Time) /\ IsZero(t.Time) THEN TRUE
    ELSE TimeEq(nt.Time, t.Time) \/ Before(nt.Time, t.Time)

(***************************************************************************)
(* The wrappers of the model.  The wrapper under test is a value of one    *)
(* of the six types; the fields of a wrapper are exported, so a wrapper    *)
(* can hold any value with either validity flag.                           *)
(***************************************************************************)
Kinds == {"NullBool", "NullInt", "NullFloat", "NullString", "NullEmptyString", "NullTime"}

Wrapper(kind, v) == [kind |-> kind, v |-> v]

\* 0, 1, -7, the two ends of the int32 range and the numbers next to them,
\* -2^32-1, 2^53 and 2^53+1.
Int64Values ==
    {IntOf(0), IntOf(1), GoInt(TRUE, <<"7">>), GoInt(FALSE, TwoTo53Digits),
     GoInt(FALSE, Increment(TwoTo53Digits)),
     GoInt(FALSE, MaxInt32Digits), GoInt(FALSE, MinInt32Digits),
     GoInt(TRUE, MinInt32Digits), GoInt(TRUE, Increment(MinInt32Digits)),
     GoInt(TRUE, <<"4","2","9","4","9","6","7","2","9","7">>)}

Float64Values ==
    {ZeroFloat, Finite(TRUE, <<"0">>, <<>>), Finite(FALSE, <<"1">>, <<"5">>),
     Finite(TRUE, <<"7">>, <<>>), NaN, Inf(FALSE)}

\* The zero time, the zero instant shown in a zone, a time before it, a
\* midnight in UTC, an afternoon in UTC, and one instant in two zone objects
\* of the same offset.
TimeValues ==
    {ZeroTime,
     Time(1, 1, 1, 7200, FixedZone(7200, 1)),
     Time(0, 12, 31, 0, UTC),
     Time(2020, 2, 29, 0, UTC),
     Time(2020, 2, 29, 54245, UTC),
     Time(2020, 3, 1, 3600, FixedZone(7200, 1)),
     Time(2020, 3, 1, 3600, FixedZone(7200, 2))}

NullTimes == {NullTime(v, t) : v \in BOOLEAN, t \in TimeValues}

Wrappers ==
    {Wrapper("NullBool", NullBool(v, b)) : v \in BOOLEAN, b \in BOOLEAN}
    \cup {Wrapper("NullInt", NullInt(v, i)) : v \in BOOLEAN, i \in Int64Values}
    \cup {Wrapper("NullFloat", NullFloat(v, f)) : v \in BOOLEAN, f \in Float64Values}
    \cup {Wrapper("NullString", NullString(v, s)) : v \in BOOLEAN, s \in LabelTexts}
    \cup {Wrapper("NullEmptyString", ns) : ns \in NullEmptyStrings}
    \cup {Wrapper("NullTime", nt) : nt \in NullTimes}

\* The wrapper a declaration without a value makes.
ZeroWrapper(kind) ==
    CASE kind = "NullBool" -> Wrapper(kind, NullBool(FALSE, FALSE))
      [] kind = "NullInt" -> Wrapper(kind, NullInt(FALSE, IntOf(0)))
      [] kind = "NullFloat" -> Wrapper(kind, NullFloat(FALSE, ZeroFloat))
      [] kind = "NullString" -> Wrapper(kind, NullString(FALSE, <<>>))
      [] kind = "NullEmptyString" -> Wrapper(kind, ZeroNullEmptyString)
      [] kind = "NullTime" -> Wrapper(kind, NullTime(FALSE, ZeroTime))

\* The underlying value of a wrapper.
Underlying(x) ==
    CASE x.kind = "NullBool" -> x.v.Bool
      [] x.kind = "NullInt" -> x.v.Int64
      [] x.kind = "NullFloat" -> x.v.Float64
      [] x.kind = "NullString" -> x.v.String
      [] x.kind = "NullEmptyString" -> x.v.String
      [] x.kind = "NullTime" -> x.v.Time

\* The bytes handed to UnmarshalJSON.
DateTexts ==
    {<<"2","0","2","0","-","0","2","-","2","9">>,
     <<"2","0","2","1","-","0","2","-","2","9">>,
     <<"2","0","2","0","-","0","2","-","2","9","T","1","5",":","0","4",":","0","5","Z">>,
     <<"2","0","2","0","-","0","3","-","0","1","T","0","1",":","0","0",":","0","0",
       "+","0","2",":","0","0">>}

JSONTexts ==
    {JNull, JPaddedNull, JEmpty, JMalformed, JBool(TRUE), JBool(FALSE),
     JNumber(FALSE, <<"0">>, <<>>), JNumber(FALSE, <<"1">>, <<"5">>),
     JNumber(TRUE, <<"7">>, <<>>), JNumber(FALSE, Increment(TwoTo53Digits), <<>>),
     JObject(<<>>), JArray(<<>>)}
    \cup {JString(s) : s \in LabelTexts \cup DateTexts}

MarshalJSON(x) ==
    CASE x.kind = "NullBool" -> NullBool_MarshalJSON(x.v)
      [] x.kind = "NullInt" -> NullInt_MarshalJSON(x.v)
      [] x.kind = "NullFloat" -> NullFloat_MarshalJSON(x.v)
      [] x.kind = "NullString" -> NullString_MarshalJSON(x.v)
      [] x.kind = "NullEmptyString" -> NullEmptyString_MarshalJSON(x.v)
      [] x.kind = "NullTime" -> NullTime_MarshalJSON(x.v)

UnmarshalJSON(x, b) ==
    LET r == CASE x.kind = "NullBool" -> NullBool_UnmarshalJSON(x.v, b)
               [] x.kind = "NullInt" -> NullInt_UnmarshalJSON(x.v, b)
               [] x.kind = "NullFloat" -> NullFloat_UnmarshalJSON(x.v, b)
               [] x.kind = "NullString" -> NullString_UnmarshalJSON(x.v, b)
               [] x.kind = "NullEmptyString" -> NullEmptyString_UnmarshalJSON(x.v, b)
               [] x.kind = "NullTime" -> NullTime_UnmarshalJSON(x.v, b)
    IN  [w |-> Wrapper(x.kind, r.w), err |-> r.err]

MarshalJSONCall ==
    /\ out' = [op |-> "MarshalJSON", of |-> w] @@ MarshalJSON(w)
    /\ UNCHANGED <<query, parsed, pageable, origin, sliced, w>>

\* UnmarshalJSON on the wrapper under test, which keeps what the call left.
UnmarshalJSONCall ==
    /\ \E b \in JSONTexts :
        /\ w' = UnmarshalJSON(w, b).w
        /\ out' = [op |-> "UnmarshalJSON", of |-> w, b |-> b, err |-> UnmarshalJSON(w, b).err]
    /\ UNCHANGED <<query, parsed, pageable, origin, sliced>>

\* The bytes MarshalJSON returned are decoded into a fresh wrapper of the
\* type of the wrapper that was encoded.
DecodeIntoFresh ==
    /\ out.op = "MarshalJSON"
    /\ out.err = NoErr
    /\ out' = [op |-> "RoundTrip", of |-> out.of, bytes |-> out.bytes,
               fresh |-> UnmarshalJSON(ZeroWrapper(out.of.kind), out.bytes).w,
               err |-> UnmarshalJSON(ZeroWrapper(out.of.kind), out.bytes).err]
    /\ UNCHANGED <<query, parsed, pageable, origin, sliced, w>>

AfterOrEqualCall ==
    /\ w.kind = "NullTime"
    /\ \E t \in NullTimes :
        out' = [op |-> "AfterOrEqual", nt |-> w.v, t |-> t,
                result |-> NullTime_AfterOrEqual(w.v, t)]
    /\ UNCHANGED <<query, parsed, pageable, origin, sliced, w>>

BeforeOrEqualCall ==
    /\ w.kind = "NullTime"
    /\ \E t \in NullTimes :
        out' = [op |-> "BeforeOrEqual", nt |-> w.v, t |-> t,
                result |-> NullTime_BeforeOrEqual(w.v, t)]
    /\ UNCHANGED <<query, parsed, pageable, origin, sliced, w>>

MapToInt32Call ==
    /\ w.kind = "NullInt"
    /\ out' = [op |-> "MapToInt32", of |-> w.v] @@ NullInt_MapToInt32(w.v)
    /\ UNCHANGED <<query, parsed, pageable, origin, sliced, w>>

NextNull ==
    \/ MarshalJSONCall
    \/ UnmarshalJSONCall
    \/ DecodeIntoFresh
    \/ AfterOrEqualCall
    \/ BeforeOrEqualCall
    \/ MapToInt32Call

InitNull ==
    /\ query = [offset |-> Absent, limit |-> Absent]
    /\ parsed = NoCall
    /\ pageable = NoCall
    /\ origin = NoCall
    /\ sliced = NoCall
    /\ w \in Wrappers
    /\ out = NoCall

SpecNull == InitNull /\ [][NextNull]_vars

(***************************************************************************)
(* What the claims about the parser say of a parameter's text, stated on   *)
(* the text itself and not through the parser.                             *)
(***************************************************************************)
Unsigned(s) == IF Len(s) > 0 /\ s[1] \in {"-", "+"} THEN Drop(s, 1) ELSE s

\* s is the decimal text of an integer: an optional sign and one digit or more.
IsIntegerText(s) ==
    /\ Unsigned(s) # <<>>
    /\ \A i \in 1..Len(Unsigned(s)) : IsDigit(Unsigned(s)[i])

IsNegativeText(s) ==
    /\ IsIntegerText(s)
    /\ s[1] = "-"
    /\ \E i \in 1..Len(Unsigned(s)) : Unsigned(s)[i] # "0"

\* Present, and not an integer or a negative integer.
BadParam(p) == p.present /\ (~IsIntegerText(p.val) \/ IsNegativeText(p.val))

\* Absent, or a non-negative integer.
GoodParam(p) == ~p.present \/ (IsIntegerText(p.val) /\ ~IsNegativeText(p.val))

\* Absent, or a non-negative integer that an int holds.
GoodIntParam(p) ==
    GoodParam(p) /\ (p.present => ~MagGreater(Unsigned(p.val), MaxIntDigits))

\* The number a non-negative integer text denotes, or the default of an
\* absent parameter.
GivenOr(p, default) ==
    IF p.present THEN GoInt(FALSE, Unsigned(p.val)) ELSE IntOf(default)

\* C1: GetFromURLQuery returns a BadRequestValueError and the zero Pagination
\* whenever the offset or the limit parameter is present and is not an integer
\* or is a negative integer, whatever the other parameter is.
C1_BadParamFails ==
    (parsed.op = "GetFromURLQuery" /\ (BadParam(query.offset) \/ BadParam(query.limit)))
        => /\ parsed.err.type = "BadRequestValueError"
           /\ parsed.page = ZeroPagination

\* A call with a well-formed offset and a negative limit has been made.
C1_Witness ==
    /\ parsed.op = "GetFromURLQuery"
    /\ query.offset = Present(<<"1", "0", "0">>)
    /\ query.limit = Present(<<"-", "1">>)
    /\ parsed.err.Key = "limit"

\* C2 as stated: with each parameter absent or a non-negative integer the call
\* succeeds and returns the given values, 0 and 500 standing in for an absent
\* offset and an absent limit.
C2_Original ==
    (parsed.op = "GetFromURLQuery" /\ GoodParam(query.offset) /\ GoodParam(query.limit))
        => /\ parsed.err = NilError
           /\ parsed.page.Offset = GivenOr(query.offset, 0)
           /\ parsed.page.Limit = GivenOr(query.limit, 500)

\* C2 as amended: with each parameter absent or a non-negative integer that an
\* int holds (at most 2^63-1), the call succeeds and returns the given values,
\* 0 and 500 standing in for an absent offset and an absent limit, each
\* defaulted independently; with both absent the result is Default().
C2_GoodParamsSucceed ==
    /\ (parsed.op = "GetFromURLQuery" /\ GoodIntParam(query.offset) /\ GoodIntParam(query.limit))
        => /\ parsed.err = NilError
           /\ parsed.page.Offset = GivenOr(query.offset, 0)
           /\ parsed.page.Limit = GivenOr(query.limit, 500)
    /\ (parsed.op = "GetFromURLQuery" /\ ~query.offset.present /\ ~query.limit.present)
        => parsed.page = Default

\* An absent offset was defaulted beside a limit far above the default limit.
C2_Witness ==
    /\ parsed.op = "GetFromURLQuery"
    /\ ~query.offset.present
    /\ query.limit = Present(MaxIntDigits)
    /\ parsed.err = NilError
    /\ parsed.page = Pagination(IntOf(0), GoInt(FALSE, MaxIntDigits))

(***************************************************************************)
(* The claims about the envelope.                                          *)
(***************************************************************************)
IsGenericSequence(d) == d.dyn = "[]interface {}"

Converts(value) == ConvertElement(value).err = NoErr

\* C3: every failing call of PageableToSlice returns an error with an empty,
\* non-nil result and never a partial one: when Data is not a []interface{},
\* and when any element fails to convert, wherever it stands.
C3_FailureIsEmpty ==
    sliced.op = "PageableToSlice" =>
        LET d == sliced.of.env.Data
        IN  /\ sliced.err # NoErr => sliced.data = Slice(<<>>)
            /\ ~IsGenericSequence(d) => sliced.err # NoErr
            /\ (IsGenericSequence(d) /\ \E i \in 1..Len(d.elems) : ~Converts(d.elems[i]))
                    => sliced.err # NoErr

\* The call failed on the last element, after an element that converted.
C3_Witness ==
    /\ sliced.op = "PageableToSlice"
    /\ IsGenericSequence(sliced.of.env.Data)
    /\ Len(sliced.of.env.Data.elems) = MaxData
    /\ \A i \in 1..(MaxData - 1) : Converts(sliced.of.env.Data.elems[i])
    /\ ~Converts(sliced.of.env.Data.elems[MaxData])
    /\ sliced.err # NoErr
    /\ sliced.data = Slice(<<>>)

\* The envelope handed to the last PageableToSlice is the one BuildPageable
\* returned for the arguments of origin.
SlicedBuilt ==
    /\ sliced.op = "PageableToSlice"
    /\ sliced.of.by = "BuildPageable"
    /\ sliced.of.hops = 0

\* ... and that envelope after it was encoded and read back.
SlicedTransferredBuilt ==
    /\ sliced.op = "PageableToSlice"
    /\ sliced.of.by = "BuildPageable"
    /\ sliced.of.hops > 0

\* C4 as stated: PageableToSlice[T](BuildPageable[T](p, n, data)) returns no
\* error and a collection equal to data.
C4_Original ==
    SlicedBuilt => /\ sliced.err = NoErr
                   /\ sliced.data.elems = origin.data.elems

\* C4 as amended: PageableToSlice[Label] applied to the envelope
\* BuildPageable[Label] returned fails with an empty result, for every p, n
\* and data; applied to that envelope after JSON encoding and decoding, it
\* returns no error and a collection equal to data when data is not nil and
\* every label of data is valid.
C4_RoundTripThroughJSON ==
    /\ SlicedBuilt => (sliced.err # NoErr /\ sliced.data = Slice(<<>>))
    /\ (/\ SlicedTransferredBuilt
        /\ ~origin.data.isNil
        /\ \A i \in 1..Len(origin.data.elems) : origin.data.elems[i].Label.Valid)
            => /\ sliced.err = NoErr
               /\ sliced.data.elems = origin.data.elems

\* A collection of MaxData different valid labels came back after the
\* transfer.
C4_Witness ==
    /\ SlicedTransferredBuilt
    /\ Len(origin.data.elems) = MaxData
    /\ \A i \in 1..MaxData : origin.data.elems[i].Label.Valid
    /\ origin.data.elems[1] # origin.data.elems[MaxData]
    /\ sliced.err = NoErr
    /\ sliced.data.elems = origin.data.elems

\* C6: when Data is a []interface{} of N elements that each convert,
\* PageableToSlice returns a nil error and N elements, element i being the
\* conversion of element i; for MockPageableLabel(l1..lN) these are N Labels
\* whose Label is valid and holds l1..lN in order.
C6_ConvertsInOrder ==
    sliced.op = "PageableToSlice" =>
        LET d == sliced.of.env.Data
        IN  /\ (IsGenericSequence(d) /\ \A i \in 1..Len(d.elems) : Converts(d.elems[i]))
                => /\ sliced.err = NoErr
                   /\ Len(sliced.data.elems) = Len(d.elems)
                   /\ \A i \in 1..Len(d.elems) :
                        sliced.data.elems[i] = ConvertElement(d.elems[i]).val
            /\ (sliced.of.by = "MockPageableLabel" /\ sliced.of.hops = 0)
                => /\ sliced.err = NoErr
                   /\ Len(sliced.data.elems) = Len(origin.labels)
                   /\ \A i \in 1..Len(origin.labels) :
                        /\ sliced.data.elems[i].Label.Valid
                        /\ sliced.data.elems[i].Label.String = origin.labels[i]

\* The envelope of MockPageableLabel for MaxData labels, the first and the
\* last different, was decoded.
C6_Witness ==
    /\ sliced.op = "PageableToSlice"
    /\ sliced.of.by = "MockPageableLabel"
    /\ sliced.of.hops = 0
    /\ Len(origin.labels) = MaxData
    /\ origin.labels[1] # origin.labels[MaxData]
    /\ Len(sliced.data.elems) = MaxData
    /\ sliced.data.elems[MaxData].Label = NullEmptyString(TRUE, origin.labels[MaxData])

\* C7: BuildPageable(page, total, data) returns an envelope whose Limit is
\* page.Limit, whose Offset is page.Offset, whose Total is total and whose
\* Data is data, whatever the length of data.
C7_BuildCopiesArguments ==
    (pageable # NoCall /\ pageable.by = "BuildPageable" /\ pageable.hops = 0)
        => /\ pageable.env.Limit = origin.page.Limit
           /\ pageable.env.Offset = origin.page.Offset
           /\ pageable.env.Total = origin.total
           /\ pageable.env.Data.dyn = "[]Label"
           /\ pageable.env.Data.isNil = origin.data.isNil
           /\ pageable.env.Data.elems = origin.data.elems

\* An envelope was built with a limit that is not the offset and a total that
\* is not the length of the data.
C7_Witness ==
    /\ pageable # NoCall
    /\ pageable.by = "BuildPageable"
    /\ pageable.hops = 0
    /\ origin.page.Limit # origin.page.Offset
    /\ origin.total > Len(origin.data.elems)
    /\ Len(origin.data.elems) > 0
    /\ pageable.env.Total = origin.total

(***************************************************************************)
(* The claims about the nullable wrappers.                                 *)
(***************************************************************************)
\* A valid zero or empty value of a collapsing variant, as C5 lists them.
CollapsesAsListed(x) ==
    /\ x.v.Valid
    /\ \/ x.kind = "NullInt" /\ x.v.Int64 = IntOf(0)
       \/ x.kind = "NullFloat" /\ FloatIsZero(x.v.Float64)
       \/ x.kind = "NullString" /\ x.v.String = <<>>

\* C5 as stated: decoding the output of w.MarshalJSON() into a fresh wrapper
\* of the type of w yields the validity flag of w and, for a valid w, the
\* value of w, except that a valid NullInt 0, NullFloat 0.0 or NullString ""
\* comes back invalid.
C5_Original ==
    out.op = "RoundTrip" =>
        IF CollapsesAsListed(out.of) THEN ~out.fresh.v.Valid
        ELSE /\ out.fresh.v.Valid = out.of.v.Valid
             /\ out.of.v.Valid => Underlying(out.fresh) = Underlying(out.of)

\* What comes back for a wrapper MarshalJSON encodes to null: an invalid
\* wrapper holding the zero value.
CameBackNull == out.err = NoErr /\ out.fresh = ZeroWrapper(out.of.kind)

\* midnight UTC of the date t shows in its location.
DateOf(t) == Time(t.y, t.m, t.d, 0, UTC)

\* C5 as amended.  For a wrapper w that MarshalJSON encodes without an error:
\* an invalid w comes back invalid, except that an invalid NullEmptyString
\* comes back valid and empty; a valid NullInt 0, NullFloat 0, NullString ""
\* or NullTime at the zero instant comes back invalid; any other valid w
\* comes back valid, with its value for NullBool, NullFloat, NullString,
\* NullEmptyString and for a NullInt of at most 2^53 in magnitude, and with
\* midnight UTC of its date for a NullTime of a year of 0 to 9999.
C5_RoundTrip ==
    out.op = "RoundTrip" =>
        LET x == out.of
            f == out.fresh
        IN  CASE x.kind = "NullBool" ->
                    IF ~x.v.Valid THEN CameBackNull
                    ELSE f.v = NullBool(TRUE, x.v.Bool)
              [] x.kind = "NullInt" ->
                    IF ~x.v.Valid \/ x.v.Int64 = IntOf(0) THEN CameBackNull
                    ELSE /\ f.v.Valid
                         /\ ~MagGreater(x.v.Int64.mag, TwoTo53Digits)
                                => f.v.Int64 = x.v.Int64
              [] x.kind = "NullFloat" ->
                    IF ~x.v.Valid \/ FloatIsZero(x.v.Float64) THEN CameBackNull
                    ELSE f.v = NullFloat(TRUE, x.v.Float64)
              [] x.kind = "NullString" ->
                    IF ~x.v.Valid \/ x.v.String = <<>> THEN CameBackNull
                    ELSE f.v = NullString(TRUE, x.v.String)
              [] x.kind = "NullEmptyString" ->
                    IF ~x.v.Valid THEN f.v = NullEmptyString(TRUE, <<>>)
                    ELSE f.v = NullEmptyString(TRUE, x.v.String)
              [] x.kind = "NullTime" ->
                    IF ~x.v.Valid \/ IsZero(x.v.Time) THEN CameBackNull
                    ELSE f.v = NullTime(TRUE, DateOf(x.v.Time))

\* A valid NullTime of an afternoon came back as the midnight of its day.
C5_Witness ==
    /\ out.op = "RoundTrip"
    /\ out.of = Wrapper("NullTime", NullTime(TRUE, Time(2020, 2, 29, 54245, UTC)))
    /\ out.fresh.v = NullTime(TRUE, Time(2020, 2, 29, 0, UTC))

\* C8 as stated: a wrapper of any of the six types whose validity flag is
\* false encodes to the JSON literal null, whatever its value.
C8_Original ==
    (out.op = "MarshalJSON" /\ ~out.of.v.Valid)
        => (out.err = NoErr /\ out.bytes = JNull)

\* C8 as amended: a NullBool, NullInt, NullFloat, NullString or NullTime
\* whose validity flag is false encodes to the JSON literal null, and a
\* NullEmptyString whose validity flag is false encodes to the empty JSON
\* string "", whatever the value.
C8_InvalidEncoding ==
    (out.op = "MarshalJSON" /\ ~out.of.v.Valid)
        => /\ out.err = NoErr
           /\ out.bytes = IF out.of.kind = "NullEmptyString" THEN JString(<<>>) ELSE JNull

\* An invalid NullInt holding a number that is not 0 was encoded.
C8_Witness ==
    /\ out.op = "MarshalJSON"
    /\ out.of = Wrapper("NullInt", NullInt(FALSE, IntOf(1)))
    /\ out.bytes = JNull

\* C9, for the six wrappers: whatever the wrapper held before, UnmarshalJSON
\* of the literal null leaves the validity flag false, and UnmarshalJSON of
\* any other input leaves it true exactly when the call returned a nil error.
C9_ValidityIsParseSuccess ==
    out.op = "UnmarshalJSON" =>
        IF out.b = JNull THEN ~w.v.Valid
        ELSE w.v.Valid <=> (out.err = NoErr)

\* C9, for NullTime: whatever the NullTime held before, UnmarshalJSON of the
\* literal null leaves the validity flag false, and UnmarshalJSON of any
\* other input leaves it true exactly when the call returned a nil error.
C9_NullTime ==
    (out.op = "UnmarshalJSON" /\ w.kind = "NullTime") =>
        IF out.b = JNull THEN ~w.v.Valid
        ELSE w.v.Valid <=> (out.err = NoErr)

\* C10: a.AfterOrEqual(b) is true exactly when b.BeforeOrEqual(a) is true.
C10_Mirror ==
    /\ out.op = "AfterOrEqual" => (out.result <=> NullTime_BeforeOrEqual(out.t, out.nt))
    /\ out.op = "BeforeOrEqual" => (out.result <=> NullTime_AfterOrEqual(out.t, out.nt))

\* i lies in the int32 range [-2^31, 2^31-1].
InInt32Range(i) ==
    IF i.neg THEN ~MagGreater(i.mag, MinInt32Digits)
    ELSE ~MagGreater(i.mag, MaxInt32Digits)

\* C11: MapToInt32 returns a non-nil pointer only when the wrapper is valid
\* and its value lies in the int32 range, and the int32 pointed to is then
\* the value; an invalid wrapper gives nil and no error; a valid value above
\* or below the int32 range gives nil and an error, never a wrapped int32.
C11_MapToInt32InRange ==
    out.op = "MapToInt32" =>
        /\ ~out.ptr.isNil => /\ out.of.Valid
                             /\ InInt32Range(out.of.Int64)
                             /\ out.ptr.val = out.of.Int64
        /\ ~out.of.Valid => (out.ptr.isNil /\ out.err = NoErr)
        /\ (out.of.Valid /\ ~InInt32Range(out.of.Int64))
                => (out.ptr.isNil /\ out.err # NoErr)

\* C11 for the values the code does handle: an invalid wrapper gives nil and
\* no error, a valid value above the int32 range gives nil and an error, and
\* a valid value in the range gives a pointer to that value.
C11_HandledCases ==
    out.op = "MapToInt32" =>
        /\ ~out.of.Valid => (out.ptr.isNil /\ out.err = NoErr)
        /\ (out.of.Valid /\ AboveMaxInt32(out.of.Int64))
                => (out.ptr.isNil /\ out.err # NoErr)
        /\ (out.of.Valid /\ InInt32Range(out.of.Int64))
                => (out.ptr = PointerTo(out.of.Int64) /\ out.err = NoErr)

\* The int32 a valid value just below the int32 range was wrapped to.
C11_Wrapped ==
    /\ out.op = "MapToInt32"
    /\ out.of = NullInt(TRUE, GoInt(TRUE, Increment(MinInt32Digits)))
    /\ out.ptr = PointerTo(GoInt(FALSE, MaxInt32Digits))
    /\ out.err = NoErr

====
